---- MODULE Spec2Model ----
(***************************************************************************)
(* RobotPathfinder motion-planning core: Path (arc-length lookup table),   *)
(* BasicTrajectory (two-pass velocity profile) and TankDriveTrajectory.    *)
(*                                                                         *)
(* Numbers.  A double is held as an exact fraction <<n, d>> in lowest      *)
(* terms with d > 0; the IEEE specials are <<0,0>> (NaN), <<1,0>> (+Inf)   *)
(* and <<-1,0>> (-Inf).  A speed is held by its square (field vel2): every *)
(* speed the profile produces is a waypoint speed, a cap, or the square    *)
(* root of a fraction, and the waypoint speeds drawn here are >= 0, so     *)
(* comparing speeds is comparing their squares.  Times need the roots      *)
(* themselves and are held to 1/SqrtScale, rounded down.                   *)
(***************************************************************************)
EXTENDS Integers, Sequences, FiniteSets, TLC

VARIABLES
    segLen,       \* geometry of the path: length of each spline segment, in 1/LenDen
    segCurv,      \* geometry of the path: curvature of each spline segment
    total_len,    \* Path::total_len
    s2t_table,    \* Path::s2t_table, a sequence of <<arc length, t>>
    base_radius,  \* Path::base_radius
    backwards,    \* Path::backwards
    len_calls,    \* number of compute_len calls made on the Path so far
    ret,          \* the last Path call: its name, argument and outcome (value or exception)
    specs,        \* RobotSpecs handed to the trajectory constructor
    params,       \* TrajectoryParams handed to the trajectory constructor
    bt,           \* the BasicTrajectory object (or the failure of its constructor)
    tt,           \* the TankDriveTrajectory object (or the failure of its constructor)
    instances,    \* JNIPath.cpp: the list instances, each shared_ptr by the address it owns
    handle,       \* the native pointer held by each Java JNIPath object
    jcall         \* the last JNIPath call: its name, its object and the exception it raised

vars == <<segLen, segCurv, total_len, s2t_table, base_radius, backwards, len_calls, ret, specs, params, bt, tt,
          instances, handle, jcall>>

jniVars == <<instances, handle, jcall>>

pathVars == <<segLen, segCurv, total_len, s2t_table, base_radius, backwards>>

trajVars == <<specs, params, bt, tt>>

(***************************************************************************)
(* Bounds of the model.                                                    *)
(***************************************************************************)
MaxSegLen == 2
LenDen == 4
MaxPoints == 4
MaxLenCalls == 2
QueryDen == 4
MaxSegCount == 4
MaxWaypointVel == 1
MaxMaxV == 2
MaxMaxA == 1
SqrtScale == 16
MaxPos == 1
MaxTangent == 4
MaxRadius == 2

(***************************************************************************)
(* Double arithmetic.                                                      *)
(***************************************************************************)
NaN == <<0, 0>>
Inf == <<1, 0>>
NegInf == <<-1, 0>>

Abs(n) == IF n < 0 THEN -n ELSE n

Sgn(n) == IF n < 0 THEN -1 ELSE IF n = 0 THEN 0 ELSE 1

RECURSIVE GCD(_, _)
GCD(a, b) == IF b = 0 THEN a ELSE GCD(b, a % b)

\* n/d divided through by g
Lowest(n, d, g) == <<n \div g, d \div g>>

\* the fraction n/d (d # 0) in lowest terms with a positive denominator
Frac(n, d) == Lowest(IF d < 0 THEN -n ELSE n, Abs(d), GCD(Abs(n), Abs(d)))

Num(n) == <<n, 1>>

isnan(x) == x = NaN

IsFinite(x) == x[2] # 0

IsZero(x) == x[2] # 0 /\ x[1] = 0

Neg(x) == <<-x[1], x[2]>>

fabs(x) == <<Abs(x[1]), x[2]>>

Add(x, y) ==
    IF isnan(x) \/ isnan(y) THEN NaN
    ELSE IF ~IsFinite(x) /\ ~IsFinite(y) THEN (IF x = y THEN x ELSE NaN)
    ELSE IF ~IsFinite(x) THEN x
    ELSE IF ~IsFinite(y) THEN y
    ELSE Frac(x[1] * y[2] + y[1] * x[2], x[2] * y[2])

Sub(x, y) == Add(x, Neg(y))

Mul(x, y) ==
    IF isnan(x) \/ isnan(y) THEN NaN
    ELSE IF ~IsFinite(x) \/ ~IsFinite(y)
         THEN (IF IsZero(x) \/ IsZero(y) THEN NaN ELSE <<Sgn(x[1]) * Sgn(y[1]), 0>>)
    ELSE Frac(x[1] * y[1], x[2] * y[2])

Div(x, y) ==
    IF isnan(x) \/ isnan(y) THEN NaN
    ELSE IF ~IsFinite(x) THEN (IF ~IsFinite(y) THEN NaN
                               ELSE <<Sgn(x[1]) * (IF y[1] < 0 THEN -1 ELSE 1), 0>>)
    ELSE IF ~IsFinite(y) THEN Num(0)
    ELSE IF y[1] = 0 THEN (IF x[1] = 0 THEN NaN ELSE <<Sgn(x[1]), 0>>)
    ELSE Frac(x[1] * y[2], x[2] * y[1])

\* x < y on doubles: false when either is NaN
Lt(x, y) ==
    /\ ~isnan(x)
    /\ ~isnan(y)
    /\ IF IsFinite(x) /\ IsFinite(y) THEN x[1] * y[2] < y[1] * x[2]
       ELSE IF IsFinite(x) THEN y = Inf
       ELSE IF IsFinite(y) THEN x = NegInf
       ELSE x = NegInf /\ y = Inf

\* x == y on doubles: false when either is NaN
Eq(x, y) == ~isnan(x) /\ ~isnan(y) /\ x = y

Le(x, y) == Lt(x, y) \/ Eq(x, y)

Gt(x, y) == Lt(y, x)

Ge(x, y) == Le(y, x)

\* the largest integer r with r * r <= n, given lo * lo <= n < hi * hi
RECURSIVE ISqrt(_, _, _)
ISqrt(n, lo, hi) ==
    IF hi - lo <= 1 THEN lo
    ELSE IF ((lo + hi) \div 2) * ((lo + hi) \div 2) <= n THEN ISqrt(n, (lo + hi) \div 2, hi)
    ELSE ISqrt(n, lo, (lo + hi) \div 2)

\* x scaled by SqrtScale^2 and rounded down
Scale2(x) == (x[1] * SqrtScale * SqrtScale) \div x[2]

\* std::sqrt of a finite fraction >= 0, to 1/SqrtScale, rounded down
sqrt(x) ==
    IF isnan(x) THEN NaN
    ELSE IF ~IsFinite(x) THEN (IF x = Inf THEN Inf ELSE NaN)
    ELSE IF x[1] < 0 THEN NaN
    ELSE Frac(ISqrt(Scale2(x), 0, Scale2(x) + 1), SqrtScale)

lerp(a, b, f) == Add(a, Mul(Sub(b, a), f))

(***************************************************************************)
(* Spline segments.  A segment is a piece of constant curvature traversed  *)
(* at a uniform rate; a point of the path is held by its distance along    *)
(* the curve from the start of the path, and the distance between two      *)
(* successive samples is the difference of these.                          *)
(***************************************************************************)
RECURSIVE SegStart(_)
SegStart(k) == IF k = 1 THEN 0 ELSE SegStart(k - 1) + segLen[k - 1]

\* SplineSegment::at(tau), tau in [0,1], of segment k (1-based)
SegmentAt(k, tau) == Add(Frac(SegStart(k), LenDen), Mul(tau, Frac(segLen[k], LenDen)))

\* rpf::curvature of SplineSegment::deriv_at / second_deriv_at of segment k
SegmentCurvature(k) == segCurv[k]

\* the tangent direction where segment k begins: the path starts at direction 0
\* and turns by the curvature times the length run
RECURSIVE SegStartHeading(_)
SegStartHeading(k) ==
    IF k = 1 THEN Num(0)
    ELSE Add(SegStartHeading(k - 1), Mul(segCurv[k - 1], Frac(segLen[k - 1], LenDen)))

\* std::atan2(d.x, d.y) of d = SplineSegment::deriv_at(tau) of segment k
SegmentHeading(k, tau) ==
    Add(SegStartHeading(k), Mul(segCurv[k], Mul(tau, Frac(segLen[k], LenDen))))

\* Vec2D::dist
Dist(a, b) == fabs(Sub(a, b))

\* std::floor of a finite fraction
floor(x) == x[1] \div x[2]

(***************************************************************************)
(* Path                                                                    *)
(***************************************************************************)
NSeg == Len(segLen)

\* the segment Path::at / deriv_at / second_deriv_at evaluate, and the local
\* parameter they hand to it (t >= 0)
SegOf(t) ==
    IF Ge(t, Num(1)) THEN [k |-> NSeg, tau |-> Num(1)]
    ELSE LET u == Mul(t, Num(NSeg))
         IN  [k |-> floor(u) + 1, tau |-> Sub(u, Num(floor(u)))]

at(t) == SegmentAt(SegOf(t).k, SegOf(t).tau)

\* rpf::curvature(d.x, dd.x, d.y, dd.y) of deriv_at(t), second_deriv_at(t)
CurvatureAt(t) == SegmentCurvature(SegOf(t).k)

\* std::fmod(x, 1.0): x less its integer part, the sign of x kept
fmod(x) ==
    IF x[1] >= 0 THEN Sub(x, Num(floor(x)))
    ELSE Neg(Sub(Neg(x), Num(floor(Neg(x)))))

\* what (size_t) makes of a negative double: the conversion is undefined, and
\* a build either wraps the value to an index past every vector or saturates
\* it to 0
Casts == {"wrap", "saturate"}

OutOfRange == "index out of range"

\* the segment and the local parameter Path::at, deriv_at and second_deriv_at
\* evaluate for any finite t, or the index outside segments they read
Locate(t, cast) ==
    IF Ge(t, Num(1)) THEN [err |-> "none", k |-> NSeg, tau |-> Num(1)]
    ELSE LET u == Mul(t, Num(NSeg))
         IN  IF floor(u) >= 0 THEN [err |-> "none", k |-> floor(u) + 1, tau |-> fmod(u)]
             ELSE IF cast = "wrap" THEN [err |-> OutOfRange, k |-> 0, tau |-> fmod(u)]
             ELSE [err |-> "none", k |-> 1, tau |-> fmod(u)]

\* the value SplineSegment::deriv_at (order 1) or second_deriv_at (order 2)
\* of segment k gives at tau, held by where it is taken
SegmentDeriv(order, k, tau) == [order |-> order, k |-> k, tau |-> tau]

\* the outcome of the call op(t) for op one of at, deriv_at, second_deriv_at
Evaluate(op, t, cast) ==
    LET loc == Locate(t, cast)
    IN  IF loc.err # "none" THEN [err |-> loc.err, val |-> NaN]
        ELSE IF op = "at" THEN [err |-> "none", val |-> SegmentAt(loc.k, loc.tau)]
        ELSE [err |-> "none",
              val |-> SegmentDeriv(IF op = "deriv_at" THEN 1 ELSE 2, loc.k, loc.tau)]

\* std::atan2(d.x, d.y) of d = deriv_at(t), t >= 0
HeadingAt(t) == SegmentHeading(SegOf(t).k, SegOf(t).tau)

\* std::vector::resize(points): keep the first entries, fill with (0, 0)
resize(tbl, points) ==
    [i \in 1..points |-> IF i <= Len(tbl) THEN tbl[i] ELSE <<Num(0), Num(0)>>]

\* the loop of compute_len from iteration i on
RECURSIVE LenLoop(_, _, _, _, _)
LenLoop(tbl, total, last, i, points) ==
    IF i >= points THEN [table |-> tbl, total |-> total]
    ELSE LET dt == Div(Num(1), Num(points - 1))
             current == at(Mul(Num(i), dt))
             sum == Add(total, Dist(last, current))
         IN  LenLoop(Append(tbl, <<sum, Mul(Num(i), dt)>>), sum, current, i + 1, points)

\* Path::compute_len(points) on a Path whose table is tbl: the new table and total_len
compute_len(tbl, points) ==
    LenLoop(Append(resize(tbl, points), <<Num(0), Num(0)>>), Num(0), at(Num(0)), 1, points)

\* a Path's lookup state: [table |-> s2t_table, total |-> total_len]
ThisPath == [table |-> s2t_table, total |-> total_len]

\* p.table[i] with the 0-based index of the source
Tbl(p, i) == p.table[i + 1]

Value(x) == [err |-> "none", val |-> x]

NotGenerated == [err |-> "Lookup table not generated", val |-> NaN]

\* the while(true) loop never leaves: start and end no longer change
Hang == [err |-> "hang", val |-> NaN]

\* the binary search of s2t (col = 1) and t2s (col = 2) for x; both return the
\* other column, t2s divided by total_len
RECURSIVE Search(_, _, _, _, _)
Search(p, col, start, end, x) ==
    LET mid == (start + end) \div 2
        other == 3 - col
        out(v) == IF col = 1 THEN v ELSE Div(v, p.total)
        mid_x == Tbl(p, mid)[col]
    IN  IF Eq(mid_x, x) THEN Value(out(Tbl(p, mid)[other]))
        ELSE IF mid = Len(p.table) - 1 THEN Value(Num(1))
        ELSE IF mid = 0 THEN Value(Num(0))
        ELSE LET next == Tbl(p, mid + 1)[col]
             IN  IF Le(mid_x, x) /\ Le(x, next)
                 THEN LET f == Div(Sub(x, mid_x), Sub(next, mid_x))
                      IN  Value(out(lerp(Tbl(p, mid)[other], Tbl(p, mid + 1)[other], f)))
                 ELSE LET ns == IF Lt(mid_x, x) THEN mid ELSE start
                          ne == IF Lt(mid_x, x) THEN end ELSE mid
                      IN  IF ns = start /\ ne = end THEN Hang
                          ELSE Search(p, col, ns, ne, x)

\* s2t with the empty table answered by 0 instead of the exception
s2t_no_throw(p, s) ==
    IF Len(p.table) = 0 THEN Value(Num(0))
    ELSE LET dist == Mul(s, p.total)
             end == Len(p.table) - 1
         IN  IF Gt(dist, Tbl(p, end - 1)[1]) THEN Value(Num(1))
             ELSE Search(p, 1, 0, end, dist)

s2t(p, s) ==
    IF Len(p.table) = 0 THEN NotGenerated
    ELSE LET dist == Mul(s, p.total)
             end == Len(p.table) - 1
         IN  IF Gt(dist, Tbl(p, end - 1)[1]) THEN Value(Num(1))
             ELSE Search(p, 1, 0, end, dist)

t2s(p, t) ==
    IF Len(p.table) = 0 THEN NotGenerated
    ELSE IF Ge(t, Num(1)) THEN Value(Num(1))
    ELSE Search(p, 2, 0, Len(p.table) - 1, t)

(***************************************************************************)
(* BasicTrajectory                                                         *)
(***************************************************************************)
Sq(x) == Mul(x, x)

\* BasicMoment(d, v, a, h): h is dropped; heading and time are left unset and
\* hold what the memory held
BasicMoment(d, v2, a, junk) ==
    [dist |-> d, vel2 |-> v2, accel |-> a, heading |-> junk, time |-> junk,
     init_facing |-> NaN, backwards |-> FALSE]

\* BasicMoment::get_afacing
get_afacing(m) == IF m.backwards THEN Neg(m.heading) ELSE m.heading

Infeasible == "Waypoint velocity constraint cannot be met"

\* the constraints of the interior waypoints i, i + 1, ..., in order:
\* <<arc-length position, square of the speed>>
RECURSIVE CollectFrom(_, _, _)
CollectFrom(p, wps, i) ==
    IF i >= Len(wps) - 1 THEN <<>>
    ELSE LET wpdt == Div(Num(1), Num(Len(wps) - 1))
             here == IF ~isnan(wps[i + 1])
                     THEN <<<<Mul(t2s(p, Mul(Num(i), wpdt)).val, p.total), Sq(wps[i + 1])>>>>
                     ELSE <<>>
         IN  here \o CollectFrom(p, wps, i + 1)

\* mv[i] of a tank trajectory from pathr[i]
TankCap(sp, r) ==
    Div(sp.max_v, Add(Num(1), Div(sp.base_width, Mul(Num(2), fabs(r)))))

\* one iteration of the forward loop: sample i (st.moments holds samples 0..i-1)
ForwardStep(st, i, c) ==
    LET dist == Mul(Num(i), c.dpi)
        prev == st.moments[i]
    IN  IF st.constraints # <<>> /\ Ge(dist, Head(st.constraints)[1])
        THEN LET constraint == Head(st.constraints)
                 popped == [st EXCEPT !.constraints = Tail(st.constraints),
                                      !.constrained = @ \cup {i}]
             IN  IF Gt(constraint[2], prev.vel2)
                 THEN LET accel == Sub(constraint[2], prev.vel2)
                      IN  IF Gt(accel, c.max_a)
                          THEN [st EXCEPT !.status = Infeasible]
                          ELSE [popped EXCEPT
                                  !.moments = Append([@ EXCEPT ![i].accel = accel],
                                                     BasicMoment(dist, constraint[2], Num(0), c.junk)),
                                  !.time_diff[i] =
                                      Div(Sub(sqrt(constraint[2]), sqrt(prev.vel2)), accel)]
                 ELSE [popped EXCEPT
                         !.moments = Append([@ EXCEPT ![i].accel = Num(0)],
                                            BasicMoment(dist, constraint[2], Num(0), c.junk))]
        ELSE IF Lt(prev.vel2, c.mv2[i + 1])
        THEN LET maxv2 == Add(prev.vel2, Mul(Mul(Num(2), c.max_a), c.dpi))
                 capped == Gt(maxv2, c.mv2[i + 1])
                 vel2 == IF capped THEN c.mv2[i + 1] ELSE maxv2
                 accel == IF capped
                          THEN Div(Sub(c.mv2[i + 1], prev.vel2), Mul(Num(2), c.dpi))
                          ELSE c.max_a
             IN  [st EXCEPT
                    !.moments = Append([@ EXCEPT ![i].accel = accel],
                                       BasicMoment(dist, vel2, Num(0), c.junk)),
                    !.time_diff[i] = Div(Sub(sqrt(vel2), sqrt(prev.vel2)), accel)]
        ELSE [st EXCEPT
                !.moments = Append([@ EXCEPT ![i].accel = Num(0)],
                                   BasicMoment(dist, c.mv2[i + 1], Num(0), c.junk))]

\* the forward loop from sample i on
RECURSIVE Forward(_, _, _)
Forward(st, i, c) ==
    IF i >= c.seg_count \/ st.status # "ok" THEN st
    ELSE Forward(ForwardStep(st, i, c), i + 1, c)

\* the last moment takes the end waypoint's velocity
Terminal(st, wps) ==
    LET n == Len(st.moments)
        v == wps[Len(wps)]
    IN  [st EXCEPT !.moments[n].accel = Num(0),
                   !.moments[n].vel2 = IF isnan(v) THEN Num(0) ELSE Sq(v)]

\* one iteration of the backward loop: sample i
BackwardStep(st, i, c) ==
    LET cur == st.moments[i + 1]
        nxt == st.moments[i + 2]
    IN  IF Gt(cur.vel2, nxt.vel2)
        THEN LET maxv2 == Add(nxt.vel2, Mul(Mul(Num(2), c.max_a), c.dpi))
                 partial == Gt(maxv2, cur.vel2)
                 accel == IF partial
                          THEN Neg(Div(Sub(cur.vel2, nxt.vel2), Mul(Num(2), c.dpi)))
                          ELSE Neg(c.max_a)
                 vel2 == IF partial THEN cur.vel2 ELSE maxv2
             IN  IF ~partial /\ i \in st.constrained
                 THEN [st EXCEPT !.status = Infeasible]
                 ELSE [st EXCEPT
                         !.moments[i + 1].accel = accel,
                         !.moments[i + 1].vel2 = vel2,
                         !.time_diff[i + 1] = Div(Sub(sqrt(nxt.vel2), sqrt(vel2)), accel)]
        ELSE st

\* the backward loop from sample i down
RECURSIVE Backward(_, _, _)
Backward(st, i, c) ==
    IF i < 0 \/ st.status # "ok" THEN st
    ELSE Backward(BackwardStep(st, i, c), i - 1, c)

\* the time integration loop from sample i on (deltas td)
RECURSIVE Integrate(_, _, _)
Integrate(m, td, i) ==
    IF i >= Len(m) THEN m
    ELSE LET dt == IF ~isnan(td[i]) THEN td[i]
                   ELSE Div(Sub(m[i + 1].dist, m[i].dist), sqrt(m[i].vel2))
         IN  Integrate([m EXCEPT ![i + 1].time = Add(m[i].time, dt)], td, i + 1)

\* every moment takes the facing of moment 0 as its init_facing
Facing(m) == [i \in 1..Len(m) |-> [m[i] EXCEPT !.init_facing = get_afacing(m[1])]]

\* the terminal adjustment and the backward loop on the outcome fwd of the
\* forward loop
Passes(fwd, wps, c) ==
    IF fwd.status = "ok" THEN Backward(Terminal(fwd, wps), Len(fwd.moments) - 2, c)
    ELSE fwd

\* the object the constructor leaves, or the exception it throws, on the
\* outcome bwd of the two passes
Finished(bwd, p, c) ==
    IF bwd.status # "ok" THEN [status |-> bwd.status]
    ELSE [status |-> "ok",
          moments |-> Integrate(Facing(bwd.moments), bwd.time_diff, 1),
          init_facing |-> get_afacing(bwd.moments[1]),
          headings |-> c.headings,
          patht |-> c.patht,
          pathr |-> c.pathr,
          mv2 |-> c.mv2,
          dpi |-> c.dpi,
          time_diff |-> bwd.time_diff,
          constraints |-> bwd.constraints,
          constrained |-> bwd.constrained,
          path |-> p]

\* the constructor from the first moment on; c holds what the loops read
Profile(sp, pr, p, c) ==
    LET wps == pr.waypoints
        first == BasicMoment(Num(0), IF ~isnan(wps[1]) THEN Sq(wps[1]) ELSE Num(0),
                             Num(0), c.junk)
        st0 == [status |-> "ok",
                moments |-> <<first>>,
                time_diff |-> [i \in 1..(c.seg_count - 1) |-> NaN],
                constraints |-> CollectFrom(p, wps, 1),
                constrained |-> {}]
    IN  Finished(Passes(Forward(st0, 1, c), wps, c), p, c)

\* the constructor from the speed caps on; ts holds the path parameter
\* s2t(ds * i) of every sample i, which only a tank trajectory keeps as patht
Caps(sp, pr, junk, p, ts) ==
    LET n == pr.seg_count
        patht == IF pr.is_tank THEN ts ELSE <<>>
        pathr == IF pr.is_tank THEN [i \in 1..n |-> Div(Num(1), CurvatureAt(ts[i]))]
                 ELSE <<>>
        mv2 == [i \in 1..n |-> IF pr.is_tank THEN Sq(TankCap(sp, pathr[i])) ELSE Sq(sp.max_v)]
    IN  Profile(sp, pr, p,
                [dpi |-> Div(p.total, Num(n)), max_a |-> sp.max_a, mv2 |-> mv2,
                 patht |-> patht, pathr |-> pathr,
                 headings |-> [i \in 1..n |-> HeadingAt(ts[i])],
                 seg_count |-> n, junk |-> junk])

\* the constructor once compute_len(seg_count + 1) has left the lookup state p
Sampled(sp, pr, junk, p) ==
    LET n == pr.seg_count
        ds == Div(Num(1), Num(n))
    IN  Caps(sp, pr, junk, p, [i \in 1..n |-> s2t(p, Mul(ds, Num(i - 1))).val])

\* the constructor BasicTrajectory(specs, params); junk is what the unset
\* doubles of a fresh BasicMoment hold
BasicTrajectory(sp, pr, junk) == Sampled(sp, pr, junk, compute_len(<<>>, pr.seg_count + 1))

\* what an unset double may hold
Garbage == {Num(0), Num(-3), NaN}

\* what constructing with seg_count = 0 can do: headings stays empty, so
\* headings[0] reads outside the vector, which either faults or yields some
\* value, and then std::vector<double> time_diff(seg_count - 1, ...) asks for
\* more than max_size() elements
SegmentationFault == "segmentation fault"
LengthError == "std::length_error"
Outcomes(sp, pr, junk) ==
    IF pr.seg_count <= 0 THEN {[status |-> SegmentationFault], [status |-> LengthError]}
    ELSE {BasicTrajectory(sp, pr, junk)}

ConstructBasic ==
    /\ bt.status = "none"
    /\ \E junk \in Garbage : bt' \in Outcomes(specs, params, junk)
    /\ IF bt'.status = "ok"
       THEN /\ s2t_table' = bt'.path.table
            /\ total_len' = bt'.path.total
            /\ base_radius' = IF params.is_tank THEN Div(specs.base_width, Num(2))
                              ELSE base_radius
            /\ len_calls' = 1
       ELSE UNCHANGED <<s2t_table, total_len, base_radius, len_calls>>
    /\ UNCHANGED <<segLen, segCurv, backwards, ret, specs, params, tt, jniVars>>

(***************************************************************************)
(* TankDriveTrajectory.  A wheel speed is the centre speed times a         *)
(* fraction, so it is held by its sign and its square; the wheel distances *)
(* and accelerations and the heading are not held.                         *)
(***************************************************************************)
\* the speed sqrt(vel2) * f
Scaled(vel2, f) == [sgn |-> IF IsZero(vel2) THEN 0 ELSE Sgn(f[1]), sq |-> Mul(vel2, Sq(f))]

\* rpf::rabs(v, limit): the magnitude of v clipped to limit, the sign kept
rabs(v, limit) == IF Gt(v.sq, Sq(limit)) THEN [v EXCEPT !.sq = Sq(limit)] ELSE v

\* d / vel for the differential d = vel / pathr * base_width / 2
Differential(sp, r) == Div(Div(sp.base_width, r), Num(2))

TankDriveMoment(lv, rv, t) == [l_vel |-> lv, r_vel |-> rv, time |-> t]

\* the moment the constructor emits for sample i >= 1
TankSample(traj, sp, i) ==
    LET k == Differential(sp, traj.pathr[i + 1])
        vel2 == traj.moments[i + 1].vel2
    IN  TankDriveMoment(rabs(Scaled(vel2, Sub(Num(1), k)), sp.max_v),
                        rabs(Scaled(vel2, Add(Num(1), k)), sp.max_v),
                        traj.moments[i + 1].time)

\* the constructor with path->set_base ahead of the is_tank test
TankDriveTrajectory_set_base_first(traj, sp, pr, r) ==
    IF ~pr.is_tank
    THEN [status |-> "Base trajectory must be tank", base_radius |-> Div(sp.base_width, Num(2))]
    ELSE [status |-> "ok", base_radius |-> Div(sp.base_width, Num(2)),
          moments |-> <<TankDriveMoment(Scaled(Num(0), Num(1)), Scaled(Num(0), Num(1)), Num(0))>>
                      \o [i \in 1..(Len(traj.moments) - 1) |-> TankSample(traj, sp, i)]]

\* the constructor TankDriveTrajectory(traj)
TankDriveTrajectory(traj, sp, pr, r) ==
    IF ~pr.is_tank THEN [status |-> "Base trajectory must be tank", base_radius |-> r]
    ELSE LET k == Differential(sp, traj.pathr[1])
             v2 == traj.moments[1].vel2
             first == IF ~isnan(pr.waypoints[1])
                      THEN TankDriveMoment(Scaled(v2, Sub(Num(1), k)),
                                           Scaled(v2, Add(Num(1), k)), Num(0))
                      ELSE TankDriveMoment(Scaled(Num(0), Num(1)), Scaled(Num(0), Num(1)), Num(0))
         IN  [status |-> "ok", base_radius |-> Div(sp.base_width, Num(2)),
              moments |-> <<first>> \o [i \in 1..(Len(traj.moments) - 1) |-> TankSample(traj, sp, i)]]

ConstructTank ==
    /\ bt.status = "ok"
    /\ tt.status = "none"
    /\ tt' = TankDriveTrajectory(bt, specs, params, base_radius)
    /\ base_radius' = tt'.base_radius
    /\ UNCHANGED <<segLen, segCurv, total_len, s2t_table, backwards, len_calls, ret, specs, params, bt, jniVars>>

(***************************************************************************)
(* Path::wheels_at.  A Vec2D is a pair <<x, y>>; an angle is held by its     *)
(* cosine and sine.                                                        *)
(***************************************************************************)
\* std::atan2(y, x)
atan2(y, x) ==
    IF IsZero(x) /\ IsZero(y) THEN [cos |-> Num(1), sin |-> Num(0)]
    ELSE LET n == sqrt(Add(Sq(x), Sq(y)))
         IN  [cos |-> Div(x, n), sin |-> Div(y, n)]

sin(angle) == angle.sin

cos(angle) == angle.cos

\* Path::wheels_at from pos = at(t) and deriv = deriv_at(t) on; r and b are
\* what the members base_radius and backwards hold
wheels_at(pos, deriv, r, b) ==
    LET heading == atan2(deriv[2], deriv[1])
        s == sin(heading)
        c == cos(heading)
        rs == IF ~b THEN Mul(r, s) ELSE Mul(Neg(r), s)
        rc == IF ~b THEN Mul(r, c) ELSE Mul(Neg(r), c)
    IN  [first |-> <<Sub(pos[1], rs), Add(pos[2], rc)>>,
         second |-> <<Add(pos[2], rs), Sub(pos[2], rc)>>]

(***************************************************************************)
(* Calls on a Path                                                         *)
(***************************************************************************)
Call(op, arg, out) == [op |-> op, arg |-> arg, err |-> out.err, val |-> out.val]

NoCall == Call("none", NaN, Value(NaN))

ComputeLen(points) ==
    /\ len_calls < MaxLenCalls
    /\ LET r == compute_len(s2t_table, points)
       IN  /\ s2t_table' = r.table
           /\ total_len' = r.total
           /\ ret' = Call("compute_len", Num(points), Value(r.total))
    /\ len_calls' = len_calls + 1
    /\ UNCHANGED <<segLen, segCurv, base_radius, backwards, trajVars, jniVars>>

S2t(s) ==
    /\ ret' = Call("s2t", s, s2t(ThisPath, s))
    /\ UNCHANGED <<pathVars, len_calls, trajVars, jniVars>>

T2s(t) ==
    /\ ret' = Call("t2s", t, t2s(ThisPath, t))
    /\ UNCHANGED <<pathVars, len_calls, trajVars, jniVars>>

\* a call of at, deriv_at or second_deriv_at
EvaluateAt(op, t) ==
    /\ \E cast \in Casts : ret' = Call(op, t, Evaluate(op, t, cast))
    /\ UNCHANGED <<pathVars, len_calls, trajVars, jniVars>>

\* the arguments the calls are tried on: -1/QueryDen, 0, 1/QueryDen, ..., 1,
\* 1 + 1/QueryDen
QueryArgs == {Frac(k, QueryDen) : k \in (-1)..(QueryDen + 1)}

\* the geometries tried: a segment of length 1/LenDen .. MaxSegLen/LenDen, alone
\* or followed by a segment of length 1/LenDen, all straight or all of curvature 1
Geometries ==
    {[len |-> l, curv |-> [k \in 1..Len(l) |-> c]] :
        l \in {<<a>> : a \in 1..MaxSegLen} \cup {<<a, 1>> : a \in 1..MaxSegLen},
        c \in {Num(0), Num(1)}}

\* a member the constructor does not initialise and nothing has written yet:
\* it holds what the memory held, which is settled only where it is read
Unset == <<"unset">>

NoSpecs == [max_v |-> NaN, max_a |-> NaN, base_width |-> NaN]

NoParams == [waypoints |-> <<>>, seg_count |-> 0, is_tank |-> FALSE]

NoTraj == [status |-> "none"]

\* ---- JNIPath: the instances list and the Java objects' native pointers ----

MaxObjects == 3
MaxAddrs == 3

\* the Java JNIPath objects, and the addresses operator new can return
Objects == 1..MaxObjects
Addrs == 1..MaxAddrs
Null == 0

JNIException == "JNIException"

JCall(op, obj, thrown) == [op |-> op, obj |-> obj, thrown |-> thrown]

\* no JNIPath object made, no call made
NoJNI ==
    /\ instances = <<>>
    /\ handle = [o \in Objects |-> Null]
    /\ jcall = JCall("none", Null, "none")

\* the addresses the entries of the list own; no other Path is allocated
Owned(list) == {list[i] : i \in 1..Len(list)}

\* std::find_if(instances.begin(), instances.end(), p.get() == ptr): the
\* position of the first match, Len(list) + 1 for instances.end()
find_if(list, ptr) ==
    IF \E i \in 1..Len(list) : list[i] = ptr
    THEN CHOOSE i \in 1..Len(list) : list[i] = ptr /\ \A j \in 1..(i - 1) : list[j] # ptr
    ELSE Len(list) + 1

\* an erase that drops the first entry whatever it points at
erase_front(list, it) == [i \in 1..(Len(list) - 1) |-> list[i + 1]]

\* std::vector::erase(it)
erase(list, it) == [i \in 1..(Len(list) - 1) |-> IF i < it THEN list[i] ELSE list[i + 1]]

\* the process is running: no call has faulted
Running == jcall.thrown # SegmentationFault

\* _construct on the Java object obj, whose pointer field is still 0
Construct(obj) ==
    /\ Running
    /\ handle[obj] = Null
    /\ \E path \in Addrs \ Owned(instances) :
          /\ instances' = Append(instances, path)
          /\ handle' = [handle EXCEPT ![obj] = path]
    /\ jcall' = JCall("_construct", obj, "none")
    /\ UNCHANGED <<pathVars, len_calls, ret, trajVars>>

\* _destroy on the Java object obj
Destroy(obj) ==
    /\ Running
    /\ LET ptr == handle[obj]
           it == find_if(instances, ptr)
       IN  /\ handle' = [handle EXCEPT ![obj] = Null]
           /\ IF it # Len(instances) + 1
              THEN /\ instances' = erase(instances, it)
                   /\ jcall' = JCall("_destroy", obj, "none")
              ELSE /\ instances' = instances
                   /\ jcall' = JCall("_destroy", obj, JNIException)
    /\ UNCHANGED <<pathVars, len_calls, ret, trajVars>>

Transforms == {"_mirrorLeftRight", "_mirrorFrontBack", "_retrace"}

\* _mirrorLeftRight, _mirrorFrontBack or _retrace on the Java object obj; the
\* address returned goes into the Java object made for the result.  On an object
\* whose pointer is 0 the call dereferences a null pointer before it reaches the
\* list.
Transform(op, obj, made) ==
    /\ Running
    /\ made # obj
    /\ handle[made] = Null
    /\ IF handle[obj] = Null
       THEN /\ jcall' = JCall(op, obj, SegmentationFault)
            /\ UNCHANGED <<instances, handle>>
       ELSE /\ \E ptr \in Addrs \ Owned(instances) :
                  /\ instances' = Append(instances, ptr)
                  /\ handle' = [handle EXCEPT ![made] = ptr]
            /\ jcall' = JCall(op, obj, "none")
    /\ UNCHANGED <<pathVars, len_calls, ret, trajVars>>

JNINext ==
    \/ \E obj \in Objects : Construct(obj)
    \/ \E obj \in Objects : Destroy(obj)
    \/ \E op \in Transforms, obj \in Objects, made \in Objects : Transform(op, obj, made)

\* a Path fresh from its constructor, and no trajectory
PathInit ==
    /\ \E g \in Geometries : segLen = g.len /\ segCurv = g.curv
    /\ total_len = NaN
    /\ s2t_table = <<>>
    /\ base_radius = Unset
    /\ backwards = FALSE
    /\ len_calls = 0
    /\ ret = NoCall
    /\ specs = NoSpecs
    /\ params = NoParams
    /\ bt = NoTraj
    /\ tt = NoTraj
    /\ NoJNI

PathNext ==
    \/ \E points \in 2..MaxPoints : ComputeLen(points)
    \/ \E s \in QueryArgs : S2t(s)
    \/ \E t \in QueryArgs : T2s(t)
    \/ \E op \in {"at", "deriv_at", "second_deriv_at"}, t \in QueryArgs : EvaluateAt(op, t)

PathSpec == PathInit /\ [][PathNext]_vars

\* Path::set_base
SetBase(radius) ==
    /\ base_radius' = radius
    /\ ret' = Call("set_base", radius, Value(NaN))
    /\ UNCHANGED <<segLen, segCurv, total_len, s2t_table, backwards, len_calls, trajVars, jniVars>>

\* Path::set_backwards
SetBackwards(b) ==
    /\ backwards' = b
    /\ ret' = Call("set_backwards", NaN, Value(NaN))
    /\ UNCHANGED <<segLen, segCurv, total_len, s2t_table, base_radius, len_calls, trajVars, jniVars>>

\* a call of wheels_at at a parameter where at gives pos and deriv_at gives
\* deriv; a base_radius never set holds what the memory held
WheelsAt(pos, deriv) ==
    /\ \E r \in (IF base_radius = Unset THEN Garbage ELSE {base_radius}) :
          ret' = [op |-> "wheels_at", arg |-> NaN, err |-> "none",
                  pos |-> pos, deriv |-> deriv, r |-> r,
                  val |-> wheels_at(pos, deriv, r, backwards)]
    /\ UNCHANGED <<pathVars, len_calls, trajVars, jniVars>>

\* the positions at(t) is tried with
Points == {<<Num(x), Num(y)>> : x \in 0..MaxPos, y \in 0..MaxPos}

\* the tangents deriv_at(t) is tried with: the non-zero integer vectors up to
\* MaxTangent a side whose length is an integer
Tangents ==
    {<<Num(x), Num(y)>> : x \in (-MaxTangent)..MaxTangent, y \in (-MaxTangent)..MaxTangent}
        \cap {v \in [1..2 -> {Num(k) : k \in (-MaxTangent)..MaxTangent}] :
                 /\ v # <<Num(0), Num(0)>>
                 /\ sqrt(Add(Sq(v[1]), Sq(v[2])))[2] = 1}

\* the radii set_base is tried with: 0, 1/2, ..., MaxRadius/2
Radii == {Frac(k, 2) : k \in 0..MaxRadius}

WheelsNext ==
    \/ \E radius \in Radii : SetBase(radius)
    \/ \E b \in BOOLEAN : SetBackwards(b)
    \/ \E pos \in Points, deriv \in Tangents : WheelsAt(pos, deriv)

\* a fresh Path of one straight segment: wheels_at reads no more of the
\* geometry than the position and the tangent it is handed here
WheelsInit ==
    /\ PathInit
    /\ segLen = <<1>>
    /\ segCurv = <<Num(0)>>

WheelsSpec == WheelsInit /\ [][WheelsNext]_vars

\* a waypoint's velocity: absent (NaN) or 0 .. MaxWaypointVel
Velocities == {NaN} \cup {Num(v) : v \in 0..MaxWaypointVel}

\* the inputs of the trajectory constructor, on a path of one or two segments;
\* the curved paths are tried with tank trajectories only, since no other
\* trajectory reads the curvature
Init ==
    /\ \E g \in Geometries, tank \in BOOLEAN :
          /\ tank \/ \A k \in 1..Len(g.curv) : g.curv[k] = Num(0)
          /\ segLen = g.len
          /\ segCurv = g.curv
          /\ \E w \in [1..(Len(g.len) + 1) -> Velocities], n \in 1..MaxSegCount :
                params = [waypoints |-> w, seg_count |-> n, is_tank |-> tank]
    /\ total_len = NaN
    /\ s2t_table = <<>>
    /\ base_radius = Unset
    /\ backwards = FALSE
    /\ len_calls = 0
    /\ ret = NoCall
    /\ \E v \in 1..MaxMaxV, a \in 1..MaxMaxA :
          specs = [max_v |-> Num(v), max_a |-> Num(a), base_width |-> Num(1)]
    /\ bt = NoTraj
    /\ tt = NoTraj
    /\ NoJNI

Next ==
    \/ ConstructBasic
    \/ ConstructTank

Spec == Init /\ [][Next]_vars

\* the constructors on any RobotSpecs and TrajectoryParams the caller can pass,
\* zero limits and a zero seg_count included, for a path of one segment
ParamInit ==
    /\ \E a \in 1..MaxSegLen, c \in {Num(0), Num(1)}, tank \in BOOLEAN :
          /\ tank \/ c = Num(0)
          /\ segLen = <<a>>
          /\ segCurv = <<c>>
          /\ \E w \in [1..2 -> Velocities], n \in 0..MaxSegCount :
                params = [waypoints |-> w, seg_count |-> n, is_tank |-> tank]
    /\ total_len = NaN
    /\ s2t_table = <<>>
    /\ base_radius = Unset
    /\ backwards = FALSE
    /\ len_calls = 0
    /\ ret = NoCall
    /\ \E v \in 0..MaxMaxV, a \in 0..MaxMaxA, w \in 0..1 :
          specs = [max_v |-> Num(v), max_a |-> Num(a), base_width |-> Num(w)]
    /\ bt = NoTraj
    /\ tt = NoTraj
    /\ NoJNI

ParamSpec == ParamInit /\ [][Next]_vars

\* the library loaded and no JNIPath made yet
JNIInit == PathInit /\ segLen = <<1>> /\ segCurv = <<Num(0)>>

JNISpec == JNIInit /\ [][JNINext]_vars

(***************************************************************************)
(* Properties of a constructed BasicTrajectory                             *)
(***************************************************************************)
Built == bt.status = "ok"

\* 0-based access to the moments, as in the source
Moment(i) == bt.moments[i + 1]

LastIndex == Len(bt.moments) - 1

StartVel2 == IF isnan(params.waypoints[1]) THEN Num(0) ELSE Sq(params.waypoints[1])

EndVel2 ==
    LET v == params.waypoints[Len(params.waypoints)]
    IN  IF isnan(v) THEN Num(0) ELSE Sq(v)

\* the interior waypoints (1-based) that carry a velocity
ConstrainedWaypoints ==
    {j \in 2..(Len(params.waypoints) - 1) : ~isnan(params.waypoints[j])}

\* the arc-length position of waypoint j on the trajectory's path
WaypointPos(j) ==
    Mul(t2s(bt.path, Div(Num(j - 1), Num(Len(params.waypoints) - 1))).val, bt.path.total)

\* the samples at or past the arc-length position pos
SamplesPast(pos) == {i \in 0..LastIndex : Ge(Mul(Num(i), bt.dpi), pos)}

FirstSamplePast(pos) == CHOOSE i \in SamplesPast(pos) : \A k \in SamplesPast(pos) : i <= k

\* C1: every interior waypoint velocity is consumed by the first sample at or
\* past the waypoint, and the finished trajectory has exactly that speed there
C1_InteriorConstraintKept ==
    Built => \A j \in ConstrainedWaypoints :
                /\ SamplesPast(WaypointPos(j)) # {}
                /\ FirstSamplePast(WaypointPos(j)) \in bt.constrained
                /\ Moment(FirstSamplePast(WaypointPos(j))).vel2 = Sq(params.waypoints[j])

\* C2: no step of the finished trajectory demands more than max_a:
\* |vel[i+1]^2 - vel[i]^2| <= 2 * max_a * (dist[i+1] - dist[i])
C2_AccelWithinLimit ==
    Built => \A i \in 0..(LastIndex - 1) :
                Le(fabs(Sub(Moment(i + 1).vel2, Moment(i).vel2)),
                   Mul(Mul(Num(2), specs.max_a), Sub(Moment(i + 1).dist, Moment(i).dist)))

\* C3: every moment's speed is at most max_v and, for a tank trajectory, at
\* most the curvature cap mv[i]
C3_SpeedWithinLimit ==
    Built => \A i \in 0..LastIndex :
                /\ Le(Moment(i).vel2, Sq(specs.max_v))
                /\ params.is_tank => Le(Moment(i).vel2, bt.mv2[i + 1])

\* C4: every wheel speed of a tank trajectory is at most max_v in magnitude
C4_WheelSpeedWithinLimit ==
    tt.status = "ok" => \A i \in 1..Len(tt.moments) :
                            /\ Le(tt.moments[i].l_vel.sq, Sq(specs.max_v))
                            /\ Le(tt.moments[i].r_vel.sq, Sq(specs.max_v))

\* the time delta the integration uses for the step leaving sample i
StepDelta(i) ==
    IF ~isnan(bt.time_diff[i + 1]) THEN bt.time_diff[i + 1]
    ELSE Div(Sub(Moment(i + 1).dist, Moment(i).dist), sqrt(Moment(i).vel2))

\* C5: moments are ordered by dist and by time, every step's time delta being
\* finite and non-negative
C5_MomentsOrdered ==
    Built => \A i \in 0..(LastIndex - 1) :
                /\ Le(Moment(i).dist, Moment(i + 1).dist)
                /\ Le(Moment(i).time, Moment(i + 1).time)
                /\ IsFinite(StepDelta(i))
                /\ Ge(StepDelta(i), Num(0))

\* the speed of constrained sample i cannot be reached from sample i - 1, or
\* braked down to sample i + 1, within one step dpi at max_a
CannotBeMet(i) ==
    LET step == Mul(Mul(Num(2), specs.max_a), bt.dpi)
    IN  \/ Gt(Sub(Moment(i).vel2, Moment(i - 1).vel2), step)
        \/ i < LastIndex /\ Gt(Sub(Moment(i).vel2, Moment(i + 1).vel2), step)

\* C6: a trajectory is never produced with an interior waypoint velocity
\* that cannot be met under max_a and the sampling step
C6_InfeasibleConstraintRejected ==
    Built => \A i \in bt.constrained : i < LastIndex => ~CannotBeMet(i)

\* C7: the first moment has the start waypoint's velocity (0 if absent), the
\* last moment the end waypoint's velocity (0 if absent) and accel 0
C7_EndpointVelocities ==
    Built => /\ Moment(0).vel2 = StartVel2
             /\ Moment(LastIndex).vel2 = EndVel2
             /\ Moment(LastIndex).accel = Num(0)

\* C8: the last moment lies at the end of the path: its dist is total_len
C8_CoversWholePath ==
    Built => Moment(LastIndex).dist = bt.path.total

(***************************************************************************)
(* Properties of a Path                                                    *)
(***************************************************************************)
IsQuery(call) == call.op \in {"s2t", "t2s"}

\* the last call was a query, and it made the difference ret' # ret
QueryStep == IsQuery(ret') /\ ret' # ret

\* C9: a query fails with "Lookup table not generated" exactly when
\* compute_len has never been called, and a query leaves the Path as it was
C9_LookupNeedsComputeLen ==
    /\ [](IsQuery(ret) => (ret.err = NotGenerated.err <=> len_calls = 0))
    /\ [][QueryStep => UNCHANGED <<pathVars, len_calls>>]_vars

C9_Witness ==
    /\ ret.op = "s2t"
    /\ ret.err = NotGenerated.err
    /\ len_calls = 0
    /\ s2t_table = <<>>

\* C10: after one or more compute_len calls the table is nondecreasing in
\* both columns over all of its entries, and total_len is the arc length of
\* its last entry
C10_TableMonotone ==
    len_calls >= 1 =>
        /\ \A i \in 1..(Len(s2t_table) - 1) :
              /\ Le(s2t_table[i][1], s2t_table[i + 1][1])
              /\ Le(s2t_table[i][2], s2t_table[i + 1][2])
        /\ total_len = s2t_table[Len(s2t_table)][1]

\* the last call was op on a Path whose lookup table exists
Answered(op) == ret.op = op /\ len_calls >= 1

\* C11: a path parameter outside [0, 1] is clamped: at, deriv_at and
\* second_deriv_at give for t < 0 what they give at 0 and for t > 1 what they
\* give at 1, s2t and t2s give 0 below 0 and 1 above 1, and no call reads
\* outside the segment list or the table
C11_ParametersClamped ==
    /\ \A op \in {"at", "deriv_at", "second_deriv_at"} :
          ret.op = op =>
             /\ ret.err = "none"
             /\ Lt(ret.arg, Num(0)) => ret.val = Evaluate(op, Num(0), "wrap").val
             /\ Gt(ret.arg, Num(1)) => ret.val = Evaluate(op, Num(1), "wrap").val
    /\ \A op \in {"s2t", "t2s"} :
          Answered(op) =>
             /\ Lt(ret.arg, Num(0)) => ret.err = "none" /\ ret.val = Num(0)
             /\ Gt(ret.arg, Num(1)) => ret.err = "none" /\ ret.val = Num(1)

\* the wheel positions the documentation gives for position pos, tangent
\* deriv, base radius r and direction flag b
DocumentedWheels(pos, deriv, r, b) ==
    LET theta == atan2(deriv[1], deriv[2])
        s == sin(theta)
        c == cos(theta)
        left == <<Sub(pos[1], Mul(r, s)), Add(pos[2], Mul(r, c))>>
        right == <<Add(pos[1], Mul(r, s)), Sub(pos[2], Mul(r, c))>>
    IN  IF b THEN [first |-> right, second |-> left]
        ELSE [first |-> left, second |-> right]

\* C12: wheels_at returns left = (px - r*s, py + r*c) and right =
\* (px + r*s, py - r*c) for s, c the sine and cosine of atan2(dx, dy), the two
\* exchanged when backwards is set
C12_WheelsDocumented ==
    ret.op = "wheels_at" =>
        ret.val = DocumentedWheels(ret.pos, ret.deriv, ret.r, backwards)

\* C13: every moment's heading is the tangent direction headings[i] computed
\* at its sample, and every moment's init_facing is the tangent direction at
\* the start
C13_HeadingsAssigned ==
    Built => \A i \in 0..LastIndex :
                /\ Moment(i).heading = bt.headings[i + 1]
                /\ Moment(i).init_facing = bt.headings[1]

\* C14: building a TankDriveTrajectory from a BasicTrajectory whose is_tank is
\* false fails with the invalid-argument error and leaves the shared Path,
\* base_radius included, as it was
C14_NonTankRejected ==
    [][(tt.status = "none" /\ tt'.status # "none" /\ ~params.is_tank)
        => /\ tt'.status = "Base trajectory must be tank"
           /\ base_radius' = base_radius
           /\ pathVars' = pathVars]_vars

C14_Witness ==
    /\ bt.status = "ok"
    /\ ~params.is_tank
    /\ tt.status = "Base trajectory must be tank"
    /\ base_radius = Unset

\* C15: BasicTrajectory rejects a seg_count that is not positive, fewer than
\* two waypoints, and a max_v, max_a or base_width that is not positive, with
\* the InvalidParams error
InvalidParams == "InvalidParams"

Rejected ==
    \/ params.seg_count <= 0
    \/ Len(params.waypoints) < 2
    \/ ~Gt(specs.max_v, Num(0))
    \/ ~Gt(specs.max_a, Num(0))
    \/ ~Gt(specs.base_width, Num(0))

C15_InvalidParamsRejected ==
    (bt.status # "none" /\ Rejected) => bt.status = InvalidParams

\* v is what interpolating t between the adjacent table entries i and i + 1
\* (counted from 0) gives at arc length dist, the entry's own t on an exact hit
Interpolates(i, dist, v) ==
    LET a == Tbl(ThisPath, i)
        b == Tbl(ThisPath, i + 1)
    IN  /\ Le(a[1], dist)
        /\ Le(dist, b[1])
        /\ \/ Eq(dist, a[1]) /\ v = a[2]
           \/ Eq(dist, b[1]) /\ v = b[2]
           \/ /\ Lt(a[1], dist)
              /\ Lt(dist, b[1])
              /\ v = lerp(a[2], b[2], Div(Sub(dist, a[1]), Sub(b[1], a[1])))

\* C16: after compute_len, s2t(s) for s in [0, 1] ends and returns t
\* interpolated between two adjacent table entries whose arc lengths bracket
\* s * total_len, in every interval of the table, the last one included
C16_LookupInterpolates ==
    (Answered("s2t") /\ Ge(ret.arg, Num(0)) /\ Le(ret.arg, Num(1)))
        => /\ ret.err = "none"
           /\ \E i \in 0..(Len(s2t_table) - 2) :
                 Interpolates(i, Mul(ret.arg, total_len), ret.val)

\* C17: the time of moment 0 is 0 and the time of every later moment is the
\* time of the moment before plus the time its step takes
C17_TimeFromZero ==
    Built => /\ Moment(0).time = Num(0)
             /\ \A i \in 1..LastIndex :
                   Moment(i).time = Add(Moment(i - 1).time, StepDelta(i - 1))

\* the native Paths handed to Java and not destroyed: what the Java objects hold
Live == {handle[o] : o \in Objects} \ {Null}

\* the last step was the JNIPath call op
JStep(op) == jcall' # jcall /\ jcall'.op = op /\ jcall'.thrown # SegmentationFault

\* C18: the instances list holds exactly one entry for each native Path handed
\* to Java and not destroyed; _construct and the three transforms add one
\* entry; _destroy on a live handle removes that handle's entry and no other and
\* sets the pointer to 0; _destroy with a pointer that is not in the list raises
\* JNIException and leaves the list as it was
C18_OneEntryPerLivePath ==
    /\ [](/\ Owned(instances) = Live
          /\ Cardinality(Live) = Len(instances)
          /\ \A o, q \in Objects : (o # q /\ handle[o] # Null) => handle[o] # handle[q])
    /\ [][\A op \in Transforms \cup {"_construct"} :
             JStep(op) => /\ Len(instances') = Len(instances) + 1
                          /\ SubSeq(instances', 1, Len(instances)) = instances
                          /\ instances'[Len(instances')] \notin Owned(instances)]_vars
    /\ [][JStep("_destroy") =>
             LET ptr == handle[jcall'.obj]
             IN  /\ handle'[jcall'.obj] = Null
                 /\ \A o \in Objects \ {jcall'.obj} : handle'[o] = handle[o]
                 /\ IF ptr \in Owned(instances)
                    THEN /\ jcall'.thrown = "none"
                         /\ Owned(instances') = Owned(instances) \ {ptr}
                         /\ Len(instances') = Len(instances) - 1
                    ELSE /\ jcall'.thrown = JNIException
                         /\ instances' = instances]_vars

\* a second _destroy on a handle, with other Paths still in the list
C18_Witness ==
    /\ jcall.op = "_destroy"
    /\ jcall.thrown = JNIException
    /\ handle[jcall.obj] = Null
    /\ Len(instances) = 2

====
